---- MODULE Spec2Model ----
(***************************************************************************)
(* Model of the structured-extraction pipeline of the LinkedIn backend     *)
(* (backend/extractor.py, backend/normalizer.py, backend/nlp.py).          *)
(*                                                                         *)
(* Text is a sequence of lexemes.  Every character that a regular          *)
(* expression of the source tests individually (white space, newline,      *)
(* parentheses, comma, semicolon, dashes, pipe, middle dot, full stop) is  *)
(* a lexeme of its own; a word lexeme is a maximal run of letters and a    *)
(* number lexeme a maximal run of digits.  The section keywords and the    *)
(* word "at" are word lexemes.                                             *)
(***************************************************************************)
EXTENDS Integers, Sequences, FiniteSets, TLC

(***************************************************************************)
(* A local variable assigned once and read several times:                  *)
(* With(v, LAMBDA x : e) is e with x bound to the value of v.              *)
(***************************************************************************)
With(v, F(_)) == F(v)

With2(v, w, F(_, _)) == F(v, w)

(***************************************************************************)
(* Python str helpers                                                      *)
(***************************************************************************)
Whitespace == {" ", "\t", "\n"}

\* str.lower(), per lexeme (lexemes without upper-case letters map to themselves)
LowerTable ==
  [s \in {"Python", "PYTHON", "SQL", "Sql", "Java", "NLP", "Docker",
          "Experience", "EXPERIENCE", "Education", "Skills", "SKILLS",
          "Present", "At", "AT", "Summary", "ML", "Engineer", "Machine",
          "Learning", "OpenAI", "Working", "MIT", "M", "Sc", "CS", "Jan",
          "Dev", "Eng", "Acme", "Berlin", "Data", "Scientist", "Software",
          "Pyton", "Globex", "Lead", "Jun", "June", "Sept", "March",
          "Dec", "Now", "PRESENT"} |->
     CASE s = "Python" -> "python" [] s = "PYTHON" -> "python"
       [] s = "SQL" -> "sql" [] s = "Sql" -> "sql" [] s = "Java" -> "java"
       [] s = "NLP" -> "nlp" [] s = "Docker" -> "docker"
       [] s = "Experience" -> "experience" [] s = "EXPERIENCE" -> "experience"
       [] s = "Education" -> "education"
       [] s = "Skills" -> "skills" [] s = "SKILLS" -> "skills"
       [] s = "Present" -> "present" [] s = "At" -> "at" [] s = "AT" -> "at"
       [] s = "Summary" -> "summary" [] s = "ML" -> "ml"
       [] s = "Engineer" -> "engineer" [] s = "Machine" -> "machine"
       [] s = "Learning" -> "learning" [] s = "OpenAI" -> "openai"
       [] s = "Working" -> "working" [] s = "MIT" -> "mit" [] s = "M" -> "m"
       [] s = "Sc" -> "sc" [] s = "CS" -> "cs" [] s = "Jan" -> "jan"
       [] s = "Dev" -> "dev" [] s = "Eng" -> "eng" [] s = "Acme" -> "acme"
       [] s = "Berlin" -> "berlin" [] s = "Data" -> "data"
       [] s = "Scientist" -> "scientist" [] s = "Software" -> "software"
       [] s = "Pyton" -> "pyton" [] s = "Globex" -> "globex"
       [] s = "Lead" -> "lead" [] s = "Jun" -> "jun" [] s = "June" -> "june"
       [] s = "Sept" -> "sept" [] s = "March" -> "march" [] s = "Dec" -> "dec"
       [] s = "Now" -> "now" [] s = "PRESENT" -> "present"]

LowerLex(s) == IF s \in DOMAIN LowerTable THEN LowerTable[s] ELSE s

Lower(str) == [i \in 1..Len(str) |-> LowerLex(str[i])]

RECURSIVE LStrip(_)
LStrip(str) ==
  IF str # <<>> /\ Head(str) \in Whitespace THEN LStrip(Tail(str)) ELSE str

RECURSIVE RStrip(_)
RStrip(str) ==
  IF str # <<>> /\ str[Len(str)] \in Whitespace
  THEN RStrip(SubSeq(str, 1, Len(str) - 1)) ELSE str

\* str.strip()
Strip(str) == RStrip(LStrip(str))

\* " ".join(list)
RECURSIVE JoinSp(_)
JoinSp(list) ==
  IF list = <<>> THEN <<>>
  ELSE IF Len(list) = 1 THEN list[1]
  ELSE list[1] \o <<" ">> \o JoinSp(Tail(list))

\* [x for x in list if keep(x)] with keep = "x.strip() is non-empty"
RECURSIVE NonBlank(_)
NonBlank(list) ==
  IF list = <<>> THEN <<>>
  ELSE IF Strip(Head(list)) # <<>> THEN <<Head(list)>> \o NonBlank(Tail(list))
  ELSE NonBlank(Tail(list))

\* [x for x in list if x]
RECURSIVE NonEmpty(_)
NonEmpty(list) ==
  IF list = <<>> THEN <<>>
  ELSE IF Head(list) # <<>> THEN <<Head(list)>> \o NonEmpty(Tail(list))
  ELSE NonEmpty(Tail(list))

\* pieces of str between the lexemes of seps (re.split on a one-character class)
RECURSIVE SplitOn(_, _, _)
SplitOn(str, seps, cur) ==
  IF str = <<>> THEN <<cur>>
  ELSE IF Head(str) \in seps THEN <<cur>> \o SplitOn(Tail(str), seps, <<>>)
  ELSE SplitOn(Tail(str), seps, Append(cur, Head(str)))

\* str.splitlines(): no line for the empty string, none after a final newline
splitlines(str) ==
  With(SplitOn(str, {"\n"}, <<>>), LAMBDA p :
    IF p[Len(p)] = <<>> THEN SubSeq(p, 1, Len(p) - 1) ELSE p)

StripAll(list) == [i \in 1..Len(list) |-> Strip(list[i])]


(***************************************************************************)
(* Python re: a backtracking matcher over lexeme sequences.                *)
(* A pattern is a sequence of elements:                                    *)
(*   "bol"/"eol"  the anchors ^ and $                                      *)
(*   "cls"        a character class with a quantifier {min,max}, greedy or *)
(*                lazy, optionally a named group (max < 0: unbounded)      *)
(*   "opt"        (?: sub )?                                               *)
(*   "alt"        (?: sub1 | sub2 | ... )                                  *)
(* Counts are tried in the order the re module tries them (lazy: fewest    *)
(* first, greedy: most first) and the first overall success is returned.   *)
(***************************************************************************)
Groups == {"title", "company", "dates", "rest", "loc", "school", "degree",
           "field", "years", "start", "end", "mon", "year"}

NoCaps == [g \in Groups |-> <<>>]

Fail == [ok |-> FALSE]

Cls(neg, set) == [neg |-> neg, set |-> set]

Q(c, min, max, greedy, grp) ==
  [k |-> "cls", neg |-> c.neg, set |-> c.set, min |-> min, max |-> max,
   greedy |-> greedy, grp |-> grp]

Bol == [k |-> "bol"]
Eol == [k |-> "eol"]
Opt(sub) == [k |-> "opt", sub |-> sub]
Alt(subs) == [k |-> "alt", subs |-> subs]

InCls(s, e) == IF e.neg THEN s \notin e.set ELSE s \in e.set

\* number of consecutive lexemes of the class from pos on, at most lim
RECURSIVE Run(_, _, _, _)
Run(L, pos, e, lim) ==
  IF lim = 0 \/ pos > Len(L) THEN 0
  ELSE IF ~InCls(L[pos], e) THEN 0
  ELSE 1 + Run(L, pos + 1, e, lim - 1)

RECURSIVE ReMatchAt(_, _, _)
RECURSIVE TryCount(_, _, _, _, _, _)
RECURSIVE TryAlt(_, _, _, _)

TryCount(pat, L, pos, c, last, step) ==
  With(ReMatchAt(Tail(pat), L, pos + c), LAMBDA r :
    IF r.ok
    THEN IF Head(pat).grp = "" THEN r
         ELSE [r EXCEPT !.caps[Head(pat).grp] = SubSeq(L, pos, pos + c - 1)]
    ELSE IF c = last THEN Fail
    ELSE TryCount(pat, L, pos, c + step, last, step))

TryAlt(subs, rest, L, pos) ==
  IF subs = <<>> THEN Fail
  ELSE With(ReMatchAt(Head(subs) \o rest, L, pos), LAMBDA r :
         IF r.ok THEN r ELSE TryAlt(Tail(subs), rest, L, pos))

ReMatchAt(pat, L, pos) ==
  IF pat = <<>> THEN [ok |-> TRUE, end |-> pos, caps |-> NoCaps]
  ELSE With2(Head(pat), Tail(pat), LAMBDA e, rest :
         CASE e.k = "bol" ->
                IF pos = 1 THEN ReMatchAt(rest, L, pos) ELSE Fail
           [] e.k = "eol" ->
                IF pos = Len(L) + 1 \/ (pos = Len(L) /\ L[pos] = "\n")
                THEN ReMatchAt(rest, L, pos) ELSE Fail
           [] e.k = "cls" ->
                With(Run(L, pos, e, IF e.max < 0 THEN Len(L) ELSE e.max), LAMBDA hi :
                  IF hi < e.min THEN Fail
                  ELSE IF e.greedy THEN TryCount(pat, L, pos, hi, e.min, -1)
                  ELSE TryCount(pat, L, pos, e.min, hi, 1))
           [] e.k = "opt" ->
                With(ReMatchAt(e.sub \o rest, L, pos), LAMBDA r :
                  IF r.ok THEN r ELSE ReMatchAt(rest, L, pos))
           [] e.k = "alt" -> TryAlt(e.subs, rest, L, pos))

\* pattern.match(L)
ReMatch(pat, L) == ReMatchAt(pat, L, 1)

\* pattern.search(L): the leftmost start position that matches
RECURSIVE ReSearchFrom(_, _, _)
ReSearchFrom(pat, L, pos) ==
  IF pos > Len(L) + 1 THEN Fail
  ELSE With(ReMatchAt(pat, L, pos), LAMBDA r :
         IF r.ok THEN [ok |-> TRUE, start |-> pos, end |-> r.end, caps |-> r.caps]
         ELSE ReSearchFrom(pat, L, pos + 1))

ReSearch(pat, L) == ReSearchFrom(pat, L, 1)

\* character classes of the source's patterns
Dot == Cls(TRUE, {"\n"})
Spc == Cls(FALSE, Whitespace)
Lit(set) == Cls(FALSE, set)
Not(set) == Cls(TRUE, set)

\* the non-ASCII characters of the source's patterns, as lexemes
EnDash == "u2013"
EmDash == "u2014"
MidDot == "u00B7"

One(c) == Q(c, 1, 1, TRUE, "")
Star(c) == Q(c, 0, -1, TRUE, "")
Plus(c) == Q(c, 1, -1, TRUE, "")


VARIABLES
  dateparser,   \* the date-parsing oracle: [avail, month] (month = today's month)
  block,        \* argument of a direct call of parse_experience_block
  bpc,          \* that call: "call", "returned" or "raised"
  blockRes,     \* the item it returned
  text,         \* argument of extract_structured_profile
  phase,        \* position of the pipeline run
  sections,     \* the sections dict of the pipeline run
  ner,          \* the entity-extraction oracle as the pipeline run sees it
  merged,       \* _normalize_structured's local: section tokens, then NER mentions
  simT,         \* similarity oracle answers for titles
  simS,         \* similarity oracle answers for skills
  npc,          \* direct calls of the normalizer: "title"/"skills", "*_done", "*_twice"
  rawTitle,     \* argument of normalize_job_title
  rawSkills,    \* argument of normalize_skills
  normTitle,    \* result of normalize_job_title
  normSkills,   \* result of normalize_skills
  _NLP,         \* nlp.py's global: 0 for None, else the identity of a handle
  handles,      \* the Language objects created so far, by identity
  tpc,          \* per thread: position inside the adapter call / get_nlp
  tlocal,       \* per thread: locals of get_nlp (before_ner, ruler) and the handle returned
  calls,        \* per thread: number of adapter calls started
  loads,        \* number of model loads (spacy.load or English()) performed
  installs,     \* number of entity rulers added to a pipeline
  span,         \* argument of a direct call of parse_date_range
  dpc,          \* that call: "call" or "returned"
  dateRes,      \* the (start, end) pair it returned
  eduLines,     \* the lines of an education span handed to split_sections
  epc,          \* that call: "call" or "returned"
  eduRes        \* the education list it returned

(***************************************************************************)
(* Date Range Resolver (extractor.py 34-107)                               *)
(***************************************************************************)
None == [ok |-> FALSE]

YearLex == {"2016", "2018", "2020", "2021", "2022"}

\* int() of a four-digit lexeme
IntOf ==
  [y \in YearLex |->
     CASE y = "2016" -> 2016 [] y = "2018" -> 2018 [] y = "2020" -> 2020
       [] y = "2021" -> 2021 [] y = "2022" -> 2022]

\* f"{y:04d}" on the years of the model
Fmt04d(y) == CHOOSE l \in YearLex : IntOf[l] = y

\* f"{m:02d}" for a month number
Fmt02d(m) ==
  CASE m = 1 -> "01" [] m = 2 -> "02" [] m = 3 -> "03" [] m = 4 -> "04"
    [] m = 5 -> "05" [] m = 6 -> "06" [] m = 7 -> "07" [] m = 8 -> "08"
    [] m = 9 -> "09" [] m = 10 -> "10" [] m = 11 -> "11" [] m = 12 -> "12"

FmtYM(y, m) == <<Fmt04d(y), "-", Fmt02d(m)>>

MONTHS ==
  [k \in {"jan", "january", "feb", "february", "mar", "march", "apr", "april",
          "may", "jun", "june", "jul", "july", "aug", "august", "sep", "sept",
          "september", "oct", "october", "nov", "november", "dec", "december"} |->
     CASE k \in {"jan", "january"} -> 1 [] k \in {"feb", "february"} -> 2
       [] k \in {"mar", "march"} -> 3 [] k \in {"apr", "april"} -> 4
       [] k = "may" -> 5 [] k \in {"jun", "june"} -> 6
       [] k \in {"jul", "july"} -> 7 [] k \in {"aug", "august"} -> 8
       [] k \in {"sep", "sept", "september"} -> 9
       [] k \in {"oct", "october"} -> 10 [] k \in {"nov", "november"} -> 11
       [] k \in {"dec", "december"} -> 12]

\* key[:3] of a lower-cased word (words of up to three letters are their own prefix)
Prefix3Table ==
  [k \in {"january", "february", "march", "april", "june", "july", "august",
          "sept", "september", "october", "november", "december", "acme",
          "lead", "present", "data", "engineer", "berlin", "globex"} |->
     CASE k = "january" -> "jan" [] k = "february" -> "feb" [] k = "march" -> "mar"
       [] k = "april" -> "apr" [] k = "june" -> "jun" [] k = "july" -> "jul"
       [] k = "august" -> "aug" [] k \in {"sept", "september"} -> "sep"
       [] k = "october" -> "oct" [] k = "november" -> "nov" [] k = "december" -> "dec"
       [] k = "acme" -> "acm" [] k = "lead" -> "lea" [] k = "present" -> "pre"
       [] k = "data" -> "dat" [] k = "engineer" -> "eng" [] k = "berlin" -> "ber"
       [] k = "globex" -> "glo"]

Prefix3(k) == IF k \in DOMAIN Prefix3Table THEN Prefix3Table[k] ELSE k

\* dateparser.parse(x): none when the oracle is unavailable or the text is
\* no date; "Month YYYY" gives that month; a bare year gives today's month
dateparser_parse(x) ==
  With(Strip(x), LAMBDA t :
    IF ~dateparser.avail THEN None
    ELSE IF Len(t) = 1 /\ t[1] \in YearLex
    THEN [ok |-> TRUE, year |-> IntOf[t[1]], month |-> dateparser.month]
    ELSE IF Len(t) = 3 /\ LowerLex(t[1]) \in DOMAIN MONTHS /\ t[2] = " "
            /\ t[3] \in YearLex
    THEN [ok |-> TRUE, year |-> IntOf[t[3]], month |-> MONTHS[LowerLex(t[1])]]
    ELSE None)

_iso_ym(str) ==
  IF str = <<>> THEN <<>>
  ELSE With(dateparser_parse(str), LAMBDA dt :
         IF ~dt.ok THEN <<>> ELSE FmtYM(dt.year, dt.month))

_iso_ym_fallback(year, month) ==
  IF year = <<>> \/ year[1] \notin YearLex THEN <<>>
  ELSE With(IF month = <<>> THEN "" ELSE Prefix3(LowerLex(Strip(month)[1])), LAMBDA key3 :
         FmtYM(IntOf[year[1]], IF key3 \in DOMAIN MONTHS THEN MONTHS[key3] ELSE 1))

\* r"\s*[-\u2013]\s*"
DATE_SEP == <<Star(Spc), One(Lit({"-", EnDash})), Star(Spc)>>

\* lexemes in which re.search(r"present|now|current", x, re.I) finds a match
PresentLex == {"present", "now", "current", "presently", "known", "currently"}

\* words of three to nine letters, for r"([A-Za-z]{3,9})\s+(\d{4})"
WordLex3to9 ==
  {"Jan", "jan", "Jun", "June", "Sept", "March", "Dec", "Dev", "Eng", "Acme", "Lead",
   "Present", "present", "now", "Data", "Engineer", "Berlin", "Globex"}

\* variant that tries the 'Month YYYY' step before the bare-year step
parse_one_monthFirst(x) ==
  IF x = <<>> THEN <<>>
  ELSE IF \E i \in 1..Len(x) : LowerLex(x[i]) \in PresentLex THEN <<>>
  ELSE With(dateparser_parse(x), LAMBDA dt :
         IF dt.ok THEN FmtYM(dt.year, dt.month)
         ELSE With(ReSearch(<<Q(Lit(WordLex3to9), 1, 1, TRUE, "mon"), Plus(Spc),
                              Q(Lit(YearLex), 1, 1, TRUE, "year")>>, x), LAMBDA m2 :
                IF m2.ok THEN _iso_ym_fallback(m2.caps["year"], m2.caps["mon"])
                ELSE With(ReSearch(<<Q(Lit(YearLex), 1, 1, TRUE, "year")>>, x), LAMBDA m :
                       IF m.ok THEN <<Fmt04d(IntOf[m.caps["year"][1]]), "-", "01">>
                       ELSE <<>>)))

\* def parse_one(x), the closure of parse_date_range
parse_one(x) ==
  IF x = <<>> THEN <<>>
  ELSE IF \E i \in 1..Len(x) : LowerLex(x[i]) \in PresentLex THEN <<>>
  ELSE With(dateparser_parse(x), LAMBDA dt :
         IF dt.ok THEN FmtYM(dt.year, dt.month)
         ELSE With(ReSearch(<<Q(Lit(YearLex), 1, 1, TRUE, "year")>>, x), LAMBDA m :
                IF m.ok THEN <<Fmt04d(IntOf[m.caps["year"][1]]), "-", "01">>
                ELSE With(ReSearch(<<Q(Lit(WordLex3to9), 1, 1, TRUE, "mon"), Plus(Spc),
                                     Q(Lit(YearLex), 1, 1, TRUE, "year")>>, x), LAMBDA m2 :
                       IF m2.ok THEN _iso_ym_fallback(m2.caps["year"], m2.caps["mon"])
                       ELSE <<>>)))

parse_date_range(s) ==
  IF s = <<>> THEN <<<<>>, <<>>>>
  ELSE With(Strip(s), LAMBDA t :
         With(ReSearch(DATE_SEP, t), LAMBDA sp :
           <<parse_one(IF sp.ok THEN SubSeq(t, 1, sp.start - 1) ELSE t),
             parse_one(IF sp.ok THEN SubSeq(t, sp.end, Len(t)) ELSE <<>>)>>))


(***************************************************************************)
(* Experience Block Parser (extractor.py 109-159)                          *)
(***************************************************************************)
AtWord == Lit({"at", "At", "AT", "aT"})

\* (?P<g>.+?)
LazyGroup(g) == Q(Dot, 1, -1, FALSE, g)

\* \s*\((?P<dates>[^)]+)\)\s*(?P<rest>.*)$
DatesRest ==
  <<Star(Spc), One(Lit({"("})), Q(Not({")"}), 1, -1, TRUE, "dates"),
    One(Lit({")"})), Star(Spc), Q(Dot, 0, -1, TRUE, "rest"), Eol>>

\* A: "Title at Company (Dates) rest"
PatA ==
  <<Bol, LazyGroup("title"), Plus(Spc), One(AtWord), Plus(Spc),
    LazyGroup("company")>> \o DatesRest

\* B: "Company - Title (Dates) rest", the dash an em dash or a hyphen
PatB ==
  <<Bol, LazyGroup("company"), Plus(Spc), One(Lit({EmDash, "-"})), Plus(Spc),
    LazyGroup("title")>> \o DatesRest

\* C: "Title, Company (Dates) rest"
PatC ==
  <<Bol, LazyGroup("title"), One(Lit({","})), Plus(Spc),
    LazyGroup("company")>> \o DatesRest

\* the same patterns listed in the opposite order
EXPERIENCE_LINE_PATTERNS_reversed == <<PatC, PatB, PatA>>

EXPERIENCE_LINE_PATTERNS == <<PatA, PatB, PatC>>

\* (?:\s*[\u2013\u00B7\-]\s*|\s+\|\s+)(?P<loc>[^|\u00B7\u2013\-]+)$
LOCATION_TAIL ==
  <<Alt(<< <<Star(Spc), One(Lit({EnDash, MidDot, "-"})), Star(Spc)>>,
           <<Plus(Spc), One(Lit({"|"})), Plus(Spc)>> >>),
    Q(Not({"|", MidDot, EnDash, "-"}), 1, -1, TRUE, "loc"), Eol>>

ExperienceItem ==
  [title |-> <<>>, company |-> <<>>, start_date |-> <<>>, end_date |-> <<>>,
   location |-> <<>>, description |-> <<>>]

\* for pat in EXPERIENCE_LINE_PATTERNS: m = pat.match(first_line); if m: break
RECURSIVE FirstMatch(_, _)
FirstMatch(pats, line) ==
  IF pats = <<>> THEN Fail
  ELSE With(ReMatch(Head(pats), line), LAMBDA m :
         IF m.ok THEN m ELSE FirstMatch(Tail(pats), line))

\* the branch "if m:" of parse_experience_block
MatchedItem(gd, rest_lines) ==
  With2(parse_date_range(gd["dates"]), ReSearch(LOCATION_TAIL, gd["rest"]), LAMBDA dr, lm :
    With((IF gd["rest"] # <<>> /\ ~lm.ok THEN <<Strip(gd["rest"])>> ELSE <<>>)
           \o (IF rest_lines # <<>> THEN <<JoinSp(rest_lines)>> ELSE <<>>), LAMBDA desc :
      [title |-> Strip(gd["title"]),
       company |-> Strip(gd["company"]),
       start_date |-> dr[1],
       end_date |-> dr[2],
       location |-> IF lm.ok THEN Strip(lm.caps["loc"]) ELSE <<>>,
       description |-> Strip(JoinSp(NonEmpty(desc)))]))

\* variant of the fallback whose description starts at the second line
FallbackItem_fromSecondLine(b) ==
  With(NonBlank(splitlines(b)), LAMBDA lines :
    [title |-> IF Len(lines) > 0 THEN lines[1] ELSE <<>>,
     company |-> IF Len(lines) > 1 THEN lines[2] ELSE <<>>,
     start_date |-> <<>>,
     end_date |-> <<>>,
     location |-> <<>>,
     description |-> IF Len(lines) > 1
                     THEN JoinSp(SubSeq(lines, 2, Len(lines)))
                     ELSE <<>>])

\* the branch "else:" of parse_experience_block
FallbackItem(b) ==
  With(NonBlank(splitlines(b)), LAMBDA lines :
    [title |-> IF Len(lines) > 0 THEN lines[1] ELSE <<>>,
     company |-> IF Len(lines) > 1 THEN lines[2] ELSE <<>>,
     start_date |-> <<>>,
     end_date |-> <<>>,
     location |-> <<>>,
     description |-> IF Len(lines) > 2
                     THEN JoinSp(SubSeq(lines, 3, Len(lines)))
                     ELSE <<>>])

parse_experience_block(b) ==
  IF b = <<>> THEN [ok |-> TRUE, item |-> ExperienceItem]
  ELSE With(StripAll(NonBlank(splitlines(b))), LAMBDA stripped :
         IF stripped = <<>> THEN [ok |-> FALSE, exc |-> "ValueError"]
         ELSE With(FirstMatch(EXPERIENCE_LINE_PATTERNS, Head(stripped)), LAMBDA matched :
                [ok |-> TRUE,
                 item |-> IF matched.ok THEN MatchedItem(matched.caps, Tail(stripped))
                          ELSE FallbackItem(b)]))


(***************************************************************************)
(* Section Segmenter and Education Line Parser (extractor.py 164-217)      *)
(***************************************************************************)
\* r'(Experience|Education|Skills)' with re.IGNORECASE
SECTION_REGEX == {"experience", "education", "skills"}

IsKeyword(lex) == LowerLex(lex) \in SECTION_REGEX

\* re.split(SECTION_REGEX, text): <<pre, name1, content1, name2, content2, ...>>
RECURSIVE SplitKeywords(_, _)
SplitKeywords(str, cur) ==
  IF str = <<>> THEN <<cur>>
  ELSE IF IsKeyword(Head(str))
  THEN <<cur, <<Head(str)>>>> \o SplitKeywords(Tail(str), <<>>)
  ELSE SplitKeywords(Tail(str), Append(cur, Head(str)))

\* re.split(r'\n{2,}', content): pieces between runs of two or more newlines
RECURSIVE SplitBlocks(_, _)
SplitBlocks(str, cur) ==
  IF str = <<>> THEN <<cur>>
  ELSE With(Run(str, 1, Lit({"\n"}), Len(str)), LAMBDA n :
         IF n >= 2
         THEN <<cur>> \o SplitBlocks(SubSeq(str, n + 1, Len(str)), <<>>)
         ELSE SplitBlocks(Tail(str), Append(cur, Head(str))))

EducationItem ==
  [school |-> <<>>, degree |-> <<>>, field |-> <<>>, start_year |-> <<>>,
   end_year |-> <<>>]

\* ^(?P<school>.+?)\s+[\u2013-]\s+(?P<degree>.+?)(?:,\s*(?P<field>[^()]+))?\s*(?:\((?P<years>[^)]+)\))?$
EducationPattern ==
  <<Bol, LazyGroup("school"), Plus(Spc), One(Lit({EnDash, "-"})), Plus(Spc),
    LazyGroup("degree"),
    Opt(<<One(Lit({","})), Star(Spc), Q(Not({"(", ")"}), 1, -1, TRUE, "field")>>),
    Star(Spc),
    Opt(<<One(Lit({"("})), Q(Not({")"}), 1, -1, TRUE, "years"), One(Lit({")"}))>>),
    Eol>>

\* variant of the years pattern without re.I
YearsPattern_caseSensitive ==
  <<Q(Lit(YearLex), 1, 1, TRUE, "start"), Star(Spc), One(Lit({EnDash, "-"})),
    Star(Spc), Q(Lit(YearLex \cup {"present"}), 1, 1, TRUE, "end")>>

\* (?P<start>\d{4})\s*[\u2013-]\s*(?P<end>\d{4}|present) with re.I
YearsPattern ==
  <<Q(Lit(YearLex), 1, 1, TRUE, "start"), Star(Spc), One(Lit({EnDash, "-"})),
    Star(Spc), Q(Lit(YearLex \cup {"present", "Present", "PRESENT"}), 1, 1, TRUE, "end")>>

parse_education_line(line) ==
  With(ReSearch(EducationPattern, line), LAMBDA m :
    IF m.ok
    THEN With(ReSearch(YearsPattern, Strip(m.caps["years"])), LAMBDA ym :
           [school |-> Strip(m.caps["school"]),
            degree |-> Strip(m.caps["degree"]),
            field |-> Strip(m.caps["field"]),
            start_year |-> IF ym.ok THEN ym.caps["start"] ELSE <<>>,
            end_year |-> IF ym.ok /\ Lower(ym.caps["end"]) # <<"present">>
                         THEN ym.caps["end"] ELSE <<>>])
    ELSE [EducationItem EXCEPT !.school = line])

\* keep the first occurrence of every lower-cased key
RECURSIVE DedupLower(_, _)
DedupLower(list, seen) ==
  IF list = <<>> THEN <<>>
  ELSE With(Lower(Head(list)), LAMBDA k :
         IF k \notin seen
         THEN <<Head(list)>> \o DedupLower(Tail(list), seen \cup {k})
         ELSE DedupLower(Tail(list), seen))

\* variant of the experience branch that puts later blocks first
RECURSIVE ParseBlocks_reversed(_)
ParseBlocks_reversed(blocks) ==
  IF blocks = <<>> THEN [ok |-> TRUE, items |-> <<>>]
  ELSE With(Strip(Head(blocks)), LAMBDA b :
         IF b = <<>> THEN ParseBlocks_reversed(Tail(blocks))
         ELSE With(parse_experience_block(b), LAMBDA one :
                IF ~one.ok THEN [ok |-> FALSE, exc |-> one.exc]
                ELSE With(ParseBlocks_reversed(Tail(blocks)), LAMBDA r :
                       IF ~r.ok THEN r
                       ELSE [ok |-> TRUE, items |-> r.items \o <<one.item>>])))

\* the experience branch: one parsed item per non-blank block
RECURSIVE ParseBlocks(_)
ParseBlocks(blocks) ==
  IF blocks = <<>> THEN [ok |-> TRUE, items |-> <<>>]
  ELSE With(Strip(Head(blocks)), LAMBDA b :
         IF b = <<>> THEN ParseBlocks(Tail(blocks))
         ELSE With(parse_experience_block(b), LAMBDA one :
                IF ~one.ok THEN [ok |-> FALSE, exc |-> one.exc]
                ELSE With(ParseBlocks(Tail(blocks)), LAMBDA r :
                       IF ~r.ok THEN r
                       ELSE [ok |-> TRUE, items |-> <<one.item>> \o r.items])))

\* the education branch: one item per non-blank line
EducationLines(content) ==
  With(NonEmpty(StripAll(splitlines(content))), LAMBDA lines :
    [i \in 1..Len(lines) |-> parse_education_line(lines[i])])

\* the skills branch
SkillTokens(content) ==
  DedupLower(NonEmpty(StripAll(SplitOn(content, {",", "\n", ";"}, <<>>))), {})

EmptySections ==
  [summary |-> <<>>, experience |-> <<>>, education |-> <<>>, skills |-> <<>>]

\* for i in range(1, len(parts), 2)
RECURSIVE SectionLoop(_, _, _)
SectionLoop(parts, i, acc) ==
  IF i > Len(parts) THEN [ok |-> TRUE, sections |-> acc]
  ELSE With2(Lower(parts[i]),
             IF i + 1 <= Len(parts) THEN Strip(parts[i + 1]) ELSE <<>>,
             LAMBDA name, content :
         IF name = <<"experience">>
         THEN With(ParseBlocks(SplitBlocks(content, <<>>)), LAMBDA r :
                IF ~r.ok THEN [ok |-> FALSE, exc |-> r.exc]
                ELSE SectionLoop(parts, i + 2,
                       [acc EXCEPT !.experience = @ \o r.items]))
         ELSE IF name = <<"education">>
         THEN SectionLoop(parts, i + 2,
                [acc EXCEPT !.education = @ \o EducationLines(content)])
         ELSE SectionLoop(parts, i + 2,
                [acc EXCEPT !.skills = @ \o SkillTokens(content)]))

split_sections(t) ==
  With(SplitKeywords(t, <<>>), LAMBDA parts :
    SectionLoop(parts, 2, [EmptySections EXCEPT !.summary = Strip(parts[1])]))


(***************************************************************************)
(* Canonical Normalizer (normalizer.py)                                    *)
(***************************************************************************)
CANONICAL_TITLES ==
  {<<"Software", " ", "Engineer">>, <<"Data", " ", "Scientist">>,
   <<"Machine", " ", "Learning", " ", "Engineer">>, <<"Data", " ", "Engineer">>,
   <<"Product", " ", "Manager">>, <<"Research", " ", "Scientist">>}

CANONICAL_SKILLS ==
  {<<"Python">>, <<"Java">>, <<"C", "+", "+">>, <<"SQL">>, <<"TensorFlow">>,
   <<"PyTorch">>, <<"spaCy">>, <<"NLP">>, <<"Computer", " ", "Vision">>,
   <<"Docker">>, <<"Kubernetes">>, <<"AWS">>, <<"Azure">>, <<"GCP">>}

TitleMinScore == 80
SkillMinScore == 85

\* process.extractOne(raw, vocabulary) or (None, 0, None), answered by the
\* similarity oracle o: a function from raw strings to [match, score]
extractOne(o, raw) ==
  IF raw \in DOMAIN o /\ o[raw].ok THEN o[raw]
  ELSE [ok |-> FALSE, match |-> <<"None">>, score |-> 0]

\* variant with an exclusive threshold
normalize_job_title_exclusive(o, raw) ==
  IF raw = <<>> THEN raw
  ELSE With(extractOne(o, raw), LAMBDA a :
         IF a.score > TitleMinScore THEN a.match ELSE raw)

normalize_job_title(o, raw) ==
  IF raw = <<>> THEN raw
  ELSE With(extractOne(o, raw), LAMBDA a :
         IF a.score >= TitleMinScore THEN a.match ELSE raw)

\* norm = match if score >= min_score else s
SkillNorm(o, s) ==
  With(extractOne(o, s), LAMBDA a :
    IF a.score >= SkillMinScore THEN a.match ELSE s)

RECURSIVE NormalizeLoop(_, _, _)
NormalizeLoop(o, raw_skills, seen) ==
  IF raw_skills = <<>> THEN <<>>
  ELSE IF Head(raw_skills) = <<>> THEN NormalizeLoop(o, Tail(raw_skills), seen)
  ELSE With(SkillNorm(o, Head(raw_skills)), LAMBDA norm :
         IF Lower(norm) \notin seen
         THEN <<norm>> \o NormalizeLoop(o, Tail(raw_skills), seen \cup {Lower(norm)})
         ELSE NormalizeLoop(o, Tail(raw_skills), seen))

\* variant that deduplicates on the raw string instead of the normalized form
RECURSIVE NormalizeLoop_rawKey(_, _, _)
NormalizeLoop_rawKey(o, raw_skills, seen) ==
  IF raw_skills = <<>> THEN <<>>
  ELSE IF Head(raw_skills) = <<>> THEN NormalizeLoop_rawKey(o, Tail(raw_skills), seen)
  ELSE IF Lower(Head(raw_skills)) \notin seen
  THEN <<SkillNorm(o, Head(raw_skills))>>
         \o NormalizeLoop_rawKey(o, Tail(raw_skills), seen \cup {Lower(Head(raw_skills))})
  ELSE NormalizeLoop_rawKey(o, Tail(raw_skills), seen)

normalize_skills_rawKey(o, raw_skills) == NormalizeLoop_rawKey(o, raw_skills, {})

\* variant that does not deduplicate the normalized forms
normalize_skills_nodedup(o, raw_skills) ==
  With(NonEmpty(raw_skills), LAMBDA kept :
    [i \in 1..Len(kept) |-> SkillNorm(o, kept[i])])

normalize_skills(o, raw_skills) == NormalizeLoop(o, raw_skills, {})

(***************************************************************************)
(* NER Enrichment Adapter (nlp.py 29-51) as one pipeline run sees it.      *)
(* ner = [guessRaises, skillsRaises, orgs, titles, skills]: whether the    *)
(* call of guess_company_and_title / collect_skills raises (get_nlp or     *)
(* nlp(text) raised), and otherwise the words the oracle labels ORG, TITLE *)
(* and SKILL wherever they occur in the text it is given.                  *)
(***************************************************************************)
\* [\w\s/.]: every lexeme but the punctuation that is not a word character
WordSpaceSlashDot ==
  Not({",", ";", "(", ")", "-", EnDash, EmDash, "|", MidDot, "+"})

\* (?P<start>[\w\s/.]+?)\s*[-\u2013]\s*(?P<end>Present|Now|Current|[\w\s/.]+) with re.I
DATE_RANGE_RE ==
  <<Q(WordSpaceSlashDot, 1, -1, FALSE, "start"), Star(Spc),
    One(Lit({"-", EnDash})), Star(Spc),
    Alt(<< <<Q(Lit({"Present", "present", "PRESENT", "Now", "now", "Current",
                    "current"}), 1, 1, TRUE, "end")>>,
           <<Q(WordSpaceSlashDot, 1, -1, TRUE, "end")>> >>)>>

extract_dates(t) ==
  With(ReSearch(DATE_RANGE_RE, t), LAMBDA m :
    IF ~m.ok THEN [start |-> <<>>, end |-> <<>>]
    ELSE [start |-> Strip(m.caps["start"]), end |-> Strip(m.caps["end"])])

\* str.split(): the maximal runs of non-white-space lexemes
RECURSIVE SplitWs(_, _)
SplitWs(str, cur) ==
  IF str = <<>> THEN (IF cur = <<>> THEN <<>> ELSE <<cur>>)
  ELSE IF Head(str) \in Whitespace
  THEN (IF cur = <<>> THEN <<>> ELSE <<cur>>) \o SplitWs(Tail(str), <<>>)
  ELSE SplitWs(Tail(str), Append(cur, Head(str)))

\* the first three tokens of the first line of t (none when t has no line)
FirstTokens(t) ==
  With(splitlines(t), LAMBDA lines :
    IF lines = <<>> THEN <<>>
    ELSE With(SplitWs(lines[1], <<>>), LAMBDA toks :
           <<Strip(JoinSp(SubSeq(toks, 1, IF Len(toks) < 3 THEN Len(toks) ELSE 3)))>>))

\* [ent.text for ent in doc.ents if ent.label_ == label]: the lexemes of t the
\* oracle labels, in text order (an entity is a span of the text it was found in)
RECURSIVE Mentions(_, _)
Mentions(t, words) ==
  IF t = <<>> THEN <<>>
  ELSE IF Head(t) \in words THEN <<<<Head(t)>>>> \o Mentions(Tail(t), words)
  ELSE Mentions(Tail(t), words)

guess_company_and_title(t) ==
  IF ner.guessRaises THEN [ok |-> FALSE, exc |-> "OracleError"]
  ELSE With2(Mentions(t, ner.orgs),
             IF Mentions(t, ner.titles) # <<>> THEN Mentions(t, ner.titles)
             ELSE FirstTokens(t),
             LAMBDA orgs, titles :
         [ok |-> TRUE,
          company |-> IF orgs # <<>> THEN Strip(orgs[1]) ELSE <<>>,
          title |-> IF titles # <<>> THEN titles[1] ELSE <<>>])

collect_skills(t) ==
  IF ner.skillsRaises THEN [ok |-> FALSE, exc |-> "OracleError"]
  ELSE [ok |-> TRUE, skills |-> Mentions(t, ner.skills)]


(***************************************************************************)
(* Enrichment, skill aggregation and the pipeline (extractor.py 220-273)   *)
(***************************************************************************)
\* variant that lets the guessed title replace a title the item already has
FillTitleCompany_overwrite(item, blob) ==
  IF item.title # <<>> /\ item.company # <<>> THEN [ok |-> TRUE, item |-> item]
  ELSE With(guess_company_and_title(blob), LAMBDA guessed :
         IF ~guessed.ok THEN [ok |-> FALSE, exc |-> guessed.exc]
         ELSE [ok |-> TRUE,
               item |-> [item EXCEPT
                           !.title = IF guessed.title # <<>> THEN guessed.title ELSE @,
                           !.company = IF @ # <<>> THEN @ ELSE guessed.company]])

\* if not item["title"] or not item["company"]: fill the empty ones from the guess
FillTitleCompany(item, blob) ==
  IF item.title # <<>> /\ item.company # <<>> THEN [ok |-> TRUE, item |-> item]
  ELSE With(guess_company_and_title(blob), LAMBDA guessed :
         IF ~guessed.ok THEN [ok |-> FALSE, exc |-> guessed.exc]
         ELSE [ok |-> TRUE,
               item |-> [item EXCEPT
                           !.title = IF @ # <<>> THEN @ ELSE guessed.title,
                           !.company = IF @ # <<>> THEN @ ELSE guessed.company]])

\* if not item["start_date"] and not item["end_date"]: take them from extract_dates
FillDates(item, blob) ==
  IF item.start_date # <<>> \/ item.end_date # <<>> THEN item
  ELSE With(extract_dates(blob), LAMBDA dr :
         [item EXCEPT
            !.start_date = IF dr.start # <<>> THEN _iso_ym(dr.start) ELSE @,
            !.end_date = IF dr.end # <<>>
                         THEN (IF \E i \in 1..Len(dr.end) : LowerLex(dr.end[i]) \in PresentLex
                               THEN <<>> ELSE _iso_ym(dr.end))
                         ELSE @])

_enrich_experience_with_ner(item) ==
  With(JoinSp(NonEmpty(<<item.title, item.company, item.description>>)), LAMBDA blob :
    With(FillTitleCompany(item, blob), LAMBDA filled :
      IF ~filled.ok THEN filled
      ELSE [ok |-> TRUE, item |-> FillDates(filled.item, blob)]))

\* for exp in sections["experience"]: enriched.append(_enrich_experience_with_ner(exp))
RECURSIVE EnrichLoop(_)
EnrichLoop(items) ==
  IF items = <<>> THEN [ok |-> TRUE, items |-> <<>>]
  ELSE With(_enrich_experience_with_ner(Head(items)), LAMBDA one :
         IF ~one.ok THEN [ok |-> FALSE, exc |-> one.exc]
         ELSE With(EnrichLoop(Tail(items)), LAMBDA r :
                IF ~r.ok THEN r
                ELSE [ok |-> TRUE, items |-> <<one.item>> \o r.items]))

\* the first loop of _normalize_structured: strip, drop empty keys, first casing wins
RECURSIVE DedupStrip(_, _)
DedupStrip(list, seen) ==
  IF list = <<>> THEN <<>>
  ELSE With(Lower(Strip(Head(list))), LAMBDA k :
         IF k # <<>> /\ k \notin seen
         THEN <<Strip(Head(list))>> \o DedupStrip(Tail(list), seen \cup {k})
         ELSE DedupStrip(Tail(list), seen))

\* variant of the first loop that compares keys case-sensitively
Deduplicate_caseSensitive(list) ==
  LET keep == {i \in 1..Len(list) :
                 /\ Strip(list[i]) # <<>>
                 /\ \A j \in 1..(i - 1) : Strip(list[j]) # Strip(list[i])}
      RECURSIVE Pick(_)
      Pick(i) == IF i > Len(list) THEN <<>>
                 ELSE IF i \in keep THEN <<Strip(list[i])>> \o Pick(i + 1)
                 ELSE Pick(i + 1)
  IN Pick(1)

\* seen, dedup = set(), []; for s in merged: ...
Deduplicate(list) == DedupStrip(list, {})

\* variant that scans the experience descriptions only, not the summary
ExtraSkillText_descriptionsOnly(sec) ==
  JoinSp([i \in 1..Len(sec.experience) |-> sec.experience[i].description])

\* extra_skill_text: the summary and every experience description, joined
ExtraSkillText(sec) ==
  JoinSp(<<sec.summary>> \o [i \in 1..Len(sec.experience) |->
                               sec.experience[i].description])

\* the list handed to normalize_skills
MergedSkills(sec) ==
  Deduplicate(sec.skills \o Mentions(ExtraSkillText(sec), ner.skills))

_normalize_structured(sec, oS, oT) ==
  With(collect_skills(ExtraSkillText(sec)), LAMBDA ner_skills :
    IF ~ner_skills.ok THEN [ok |-> FALSE, exc |-> ner_skills.exc]
    ELSE With(sec.skills \o ner_skills.skills, LAMBDA merged_ :
           [ok |-> TRUE,
            merged |-> merged_,
            sections |->
              [sec EXCEPT
                 !.skills = normalize_skills(oS, Deduplicate(merged_)),
                 !.experience = [i \in 1..Len(sec.experience) |->
                                   [sec.experience[i] EXCEPT
                                      !.title = normalize_job_title(oT, @)]]]]))


(***************************************************************************)
(* Inputs of the pipeline runs                                             *)
(***************************************************************************)
MaxFragments == 2

FSummary == <<"Summary", "\n", "ML", " ", "Engineer", ".", "\n", "\n">>

FExperience ==
  <<"Experience", "\n", "Machine", " ", "Learning", " ", "Engineer", " ", "at",
    " ", "OpenAI", " ", "(", "Jan", " ", "2021", " ", "-", " ", "Present", ")",
    "\n", "Working", " ", "on", " ", "NLP", ".", "\n", "\n">>

FEducation ==
  <<"Education", "\n", "MIT", " ", EnDash, " ", "M", ".", "Sc", ".", ",", " ",
    "CS", " ", "(", "2016", EnDash, "2018", ")", "\n", "\n">>

FSkills == <<"Skills", "\n", "Python", ",", " ", "SQL", ",", " ", "python">>

\* the end-to-end scenario of the specification
ScenarioText == FSummary \o FExperience \o FEducation \o FSkills

Fragments ==
  { FSummary, FExperience, FEducation, FSkills,
    <<"SKILLS", "\n", "python", ";", "PYTHON", "\n">>,
    <<"skills", " ", "Pyton", ",", " ", "Sql", ",", " ", ",", "\n">>,
    <<"EXPERIENCE", "\n", "Lead", " ", "Globex", "\n", "\n", "\n", "Acme", " ", "-", " ", "Dev",
      " ", "(", "2018", " ", "-", " ", "2020", ")", " ", "-", " ", "Berlin", "\n">>,
    <<"Python", " ", "python", "\n">>,
    <<" ", "\n">> }

RECURSIVE Concats(_)
Concats(n) ==
  IF n = 0 THEN {<<>>}
  ELSE LET shorter == Concats(n - 1)
       IN shorter \cup {a \o f : a \in shorter, f \in Fragments}

Texts == Concats(MaxFragments) \cup {ScenarioText}

DateOracles ==
  {[avail |-> FALSE, month |-> 1], [avail |-> TRUE, month |-> 1],
   [avail |-> TRUE, month |-> 11]}

NerOracles ==
  {[guessRaises |-> FALSE, skillsRaises |-> FALSE, orgs |-> {}, titles |-> {},
    skills |-> {}],
   [guessRaises |-> FALSE, skillsRaises |-> FALSE, orgs |-> {"Globex", "OpenAI"},
    titles |-> {"Lead"}, skills |-> {"NLP", "Python", "python", "PYTHON"}],
   [guessRaises |-> FALSE, skillsRaises |-> FALSE, orgs |-> {}, titles |-> {},
    skills |-> {"NLP"}],
   [guessRaises |-> TRUE, skillsRaises |-> FALSE, orgs |-> {}, titles |-> {},
    skills |-> {}],
   [guessRaises |-> FALSE, skillsRaises |-> TRUE, orgs |-> {}, titles |-> {},
    skills |-> {}]}

\* answers the similarity oracle may give for one raw string
SkillAnswers ==
  {[ok |-> FALSE, match |-> <<"None">>, score |-> 0],
   [ok |-> TRUE, match |-> <<"Python">>, score |-> 84],
   [ok |-> TRUE, match |-> <<"Python">>, score |-> 85],
   [ok |-> TRUE, match |-> <<"SQL">>, score |-> 100]}

TitleAnswers ==
  {[ok |-> TRUE, match |-> <<"Machine", " ", "Learning", " ", "Engineer">>, score |-> 79],
   [ok |-> TRUE, match |-> <<"Machine", " ", "Learning", " ", "Engineer">>, score |-> 100]}

Range(f) == {f[i] : i \in DOMAIN f}

pipeVars == <<text, phase, sections, ner, merged, simT, simS>>
blockVars == <<block, bpc, blockRes>>
normVars == <<npc, rawTitle, rawSkills, normTitle, normSkills>>
nlpVars == <<_NLP, handles, tpc, tlocal, calls, loads, installs>>
dateVars == <<span, dpc, dateRes>>
eduVars == <<eduLines, epc, eduRes>>

vars == <<dateparser, block, bpc, blockRes, text, phase, sections, ner, merged, simT, simS,
          npc, rawTitle, rawSkills, normTitle, normSkills,
          _NLP, handles, tpc, tlocal, calls, loads, installs, span, dpc, dateRes,
          eduLines, epc, eduRes>>

\* the parts of the state a specification does not use
IdlePipe ==
  /\ text = <<>>
  /\ phase = "unused"
  /\ sections = EmptySections
  /\ ner = [guessRaises |-> FALSE, skillsRaises |-> FALSE, orgs |-> {},
            titles |-> {}, skills |-> {}]
  /\ merged = <<>>

IdleSim == simT = <<>> /\ simS = <<>>

IdleBlock == block = <<>> /\ bpc = "unused" /\ blockRes = ExperienceItem

IdleNorm ==
  /\ npc = "unused"
  /\ rawTitle = <<>>
  /\ rawSkills = <<>>
  /\ normTitle = <<>>
  /\ normSkills = <<>>

IdleNlp ==
  /\ _NLP = 0
  /\ handles = <<>>
  /\ tpc = <<>>
  /\ tlocal = <<>>
  /\ calls = <<>>
  /\ loads = 0
  /\ installs = 0

IdleDate == dateparser = [avail |-> FALSE, month |-> 1]

IdleSpan == span = <<>> /\ dpc = "unused" /\ dateRes = <<<<>>, <<>>>>

IdleEdu == eduLines = <<>> /\ epc = "unused" /\ eduRes = <<>>

(***************************************************************************)
(* extract_structured_profile, one statement of its body per step          *)
(***************************************************************************)
Init ==
  /\ text \in Texts
  /\ dateparser \in DateOracles
  /\ ner \in NerOracles
  /\ phase = "start"
  /\ sections = EmptySections
  /\ merged = <<>>
  /\ IdleSim
  /\ IdleBlock
  /\ IdleNorm
  /\ IdleNlp
  /\ IdleSpan
  /\ IdleEdu

\* sections = split_sections(text)
SplitSections ==
  /\ phase = "start"
  /\ \E r \in {split_sections(text)} :
        IF r.ok
        THEN /\ sections' = r.sections
             /\ phase' = "split"
        ELSE /\ phase' = "raised"
             /\ UNCHANGED sections
  /\ UNCHANGED <<dateparser, dateVars, eduVars, text, ner, merged, simT, simS, blockVars, normVars, nlpVars>>

\* the enrichment loop over sections["experience"]
Enrich ==
  /\ phase = "split"
  /\ \E r \in {EnrichLoop(sections.experience)} :
        IF r.ok
        THEN /\ sections' = [sections EXCEPT !.experience = r.items]
             /\ phase' = "enriched"
        ELSE /\ phase' = "raised"
             /\ UNCHANGED sections
  /\ UNCHANGED <<dateparser, dateVars, eduVars, text, ner, merged, simT, simS, blockVars, normVars, nlpVars>>

\* sections = _normalize_structured(sections); return sections
Normalize ==
  /\ phase = "enriched"
  /\ \E oS \in [Range(MergedSkills(sections)) -> SkillAnswers],
        oT \in [{sections.experience[i].title : i \in 1..Len(sections.experience)}
                  -> TitleAnswers] :
       \E r \in {_normalize_structured(sections, oS, oT)} :
          /\ simS' = oS
          /\ simT' = oT
          /\ IF r.ok
             THEN /\ sections' = r.sections
                  /\ merged' = r.merged
                  /\ phase' = "done"
             ELSE /\ phase' = "raised"
                  /\ UNCHANGED <<sections, merged>>
  /\ UNCHANGED <<dateparser, dateVars, eduVars, text, ner, blockVars, normVars, nlpVars>>

Next == SplitSections \/ Enrich \/ Normalize

Spec == Init /\ [][Next]_vars

(***************************************************************************)
(* Direct calls of parse_experience_block                                  *)
(***************************************************************************)
MaxRestLines == 1

HeadWords == {<<"Dev">>, <<"Acme">>}
MidWords == {<<>>, <<"Eng">>, <<" ">>}
Separators == {<<>>, <<" ", "at", " ">>, <<" ", "-", " ">>, <<",", " ">>, <<" ">>}
DateParts ==
  {<<>>, <<"(", "2020", ")">>, <<" ", "(", "Jan", " ", "2021", " ", "-", " ", "Present", ")">>,
   <<"(", " ", ")">>}
RestParts ==
  {<<>>, <<" ", "-", " ", "Berlin">>, <<" ", "did", " ", "x">>,
   <<" ", "did", " ", "x", " ", "-", " ", "Berlin">>}
MoreLines == {<<"\n", "more", " ", "text">>, <<"\n", " ", "\n">>}

HeaderLines ==
  {w1 \o s1 \o w2 \o s2 \o w3 \o d \o r :
     w1 \in HeadWords, s1 \in Separators, w2 \in MidWords, s2 \in Separators,
     w3 \in MidWords, d \in DateParts, r \in RestParts}

RECURSIVE WithLines(_, _)
WithLines(base, n) ==
  IF n = 0 THEN base
  ELSE LET shorter == WithLines(base, n - 1)
       IN shorter \cup {b \o l : b \in shorter, l \in MoreLines}

\* blocks of lines without a header shape
MaxPlainLines == 4

PlainLines == {<<"Dev">>, <<" ", "Acme", " ">>, <<"did", " ", "x">>, <<" ">>}

RECURSIVE PlainBlocks(_)
PlainBlocks(n) ==
  IF n = 1 THEN PlainLines
  ELSE LET shorter == PlainBlocks(n - 1)
       IN shorter \cup {b \o <<"\n">> \o l : b \in shorter, l \in PlainLines}

Blocks ==
  WithLines(HeaderLines, MaxRestLines)
    \cup PlainBlocks(MaxPlainLines)
    \cup {<<>>, <<" ">>, <<"\n">>, <<" ", "\n", " ">>}

InitBlock ==
  /\ block \in Blocks
  /\ dateparser \in DateOracles
  /\ bpc = "call"
  /\ blockRes = ExperienceItem
  /\ IdlePipe
  /\ IdleSim
  /\ IdleNorm
  /\ IdleNlp
  /\ IdleSpan
  /\ IdleEdu

\* parse_experience_block(block)
ParseBlock ==
  /\ bpc = "call"
  /\ \E r \in {parse_experience_block(block)} :
        IF r.ok
        THEN /\ blockRes' = r.item
             /\ bpc' = "returned"
        ELSE /\ bpc' = "raised"
             /\ UNCHANGED blockRes
  /\ UNCHANGED <<dateparser, dateVars, eduVars, block, pipeVars, normVars, nlpVars>>

NextBlock == ParseBlock

SpecBlock == InitBlock /\ [][NextBlock]_vars

\* the header line of a block: its first non-blank line, stripped
HasHeader(b) == NonBlank(splitlines(b)) # <<>>
HeaderLine(b) == Strip(Head(NonBlank(splitlines(b))))

IsYearMonth(d) ==
  /\ Len(d) = 3
  /\ d[1] \in YearLex
  /\ d[2] = "-"
  /\ d[3] \in {"01", "02", "03", "04", "05", "06", "07", "08", "09", "10", "11", "12"}

\* C4: parse_experience_block returns an item for every non-empty block,
\* also for one that consists of white space or blank lines only.
C4_NoFailurePath ==
  (bpc \in {"returned", "raised"} /\ block # <<>>) => bpc = "returned"

\* C5: when the header line matches pattern (a), (b) or (c), the returned
\* item has a non-empty title and a non-empty company, and each date is
\* empty or of the form YYYY-MM.
C5_MatchedHeaderFields ==
  (bpc = "returned" /\ HasHeader(block)
     /\ FirstMatch(<<PatA, PatB, PatC>>, HeaderLine(block)).ok)
  => /\ blockRes.title # <<>>
     /\ blockRes.company # <<>>
     /\ blockRes.start_date = <<>> \/ IsYearMonth(blockRes.start_date)
     /\ blockRes.end_date = <<>> \/ IsYearMonth(blockRes.end_date)

\* C6: the patterns are tried in the order (a), (b), (c) and the first match
\* wins: title and company are the groups of the earliest matching pattern.
C6_FirstPatternWins ==
  (bpc = "returned" /\ HasHeader(block)) =>
    LET a == ReMatch(PatA, HeaderLine(block))
        b == ReMatch(PatB, HeaderLine(block))
        c == ReMatch(PatC, HeaderLine(block))
        w == IF a.ok THEN a ELSE IF b.ok THEN b ELSE c
    IN w.ok => /\ blockRes.title = Strip(w.caps["title"])
               /\ blockRes.company = Strip(w.caps["company"])

\* a header that matches both (a) and (c) with different captures has been parsed
C6_Witness ==
  /\ bpc = "returned"
  /\ HasHeader(block)
  /\ LET a == ReMatch(PatA, HeaderLine(block))
         c == ReMatch(PatC, HeaderLine(block))
     IN a.ok /\ c.ok /\ a.caps["title"] # c.caps["title"]
        /\ blockRes.title = Strip(a.caps["title"])

(***************************************************************************)
(* Direct calls of the Canonical Normalizer                                *)
(***************************************************************************)
MaxSkills == 2

RawTitles == {<<>>, <<"ML", " ", "Eng">>, <<"Dev">>, <<"Data", " ", "Scientist">>}

RawSkillSet == {<<"python">>, <<"Pyton">>, <<"SQL">>}

RECURSIVE Lists(_, _)
Lists(S, n) ==
  IF n = 0 THEN {<<>>}
  ELSE LET shorter == Lists(S, n - 1)
       IN shorter \cup {Append(l, x) : l \in shorter, x \in S}

\* scores around both thresholds, and the extremes
Scores == {0, 79, 80, 81, 84, 85, 86, 100}

NormTitleAnswers ==
  {[ok |-> FALSE, match |-> <<"None">>, score |-> 0]}
    \cup {[ok |-> TRUE, match |-> <<"Machine", " ", "Learning", " ", "Engineer">>,
           score |-> sc] : sc \in Scores}

NormSkillAnswers ==
  {[ok |-> FALSE, match |-> <<"None">>, score |-> 0]}
    \cup {[ok |-> TRUE, match |-> m, score |-> sc] :
            m \in {<<"Python">>, <<"SQL">>}, sc \in {84, 85}}

\* process.extractOne(c, vocabulary, scorer=fuzz.WRatio) for an entry c of the
\* vocabulary: c scores 100 against itself and no other entry does
SelfMatch(c) == [ok |-> TRUE, match |-> c, score |-> 100]

\* the answers of the similarity oracle on a set of raw strings and on the
\* vocabulary entries it may return for them
Oracles(raws, vocabulary, answers) ==
  {[r \in raws \cup {a.match : a \in {b \in answers : b.ok}} |->
      IF r \in vocabulary THEN SelfMatch(r) ELSE f[r]] :
     f \in [raws -> answers]}

InitNorm ==
  /\ \/ /\ npc = "title"
        /\ rawTitle \in RawTitles
        /\ simT \in Oracles(RawTitles \ {<<>>}, CANONICAL_TITLES, NormTitleAnswers)
        /\ rawSkills = <<>>
        /\ simS = <<>>
     \/ /\ npc = "skills"
        /\ rawSkills \in Lists(RawSkillSet \cup {<<>>}, MaxSkills)
        /\ simS \in Oracles(RawSkillSet, CANONICAL_SKILLS, NormSkillAnswers)
        /\ rawTitle = <<>>
        /\ simT = <<>>
  /\ normTitle = <<>>
  /\ normSkills = <<>>
  /\ IdleDate
  /\ IdlePipe
  /\ IdleBlock
  /\ IdleNlp
  /\ IdleSpan
  /\ IdleEdu

\* normalize_job_title(rawTitle)
NormalizeTitle ==
  /\ npc = "title"
  /\ normTitle' = normalize_job_title(simT, rawTitle)
  /\ npc' = "title_done"
  /\ UNCHANGED <<dateparser, dateVars, eduVars, rawTitle, rawSkills, normSkills, pipeVars, blockVars, nlpVars>>

\* normalize_skills(rawSkills)
NormalizeSkills ==
  /\ npc = "skills"
  /\ normSkills' = normalize_skills(simS, rawSkills)
  /\ npc' = "skills_done"
  /\ UNCHANGED <<dateparser, dateVars, eduVars, rawTitle, rawSkills, normTitle, pipeVars, blockVars, nlpVars>>

\* normalize_job_title called on the title the first call returned
NormalizeTitleAgain ==
  /\ npc = "title_done"
  /\ rawTitle' = normTitle
  /\ normTitle' = normalize_job_title(simT, normTitle)
  /\ npc' = "title_twice"
  /\ UNCHANGED <<dateparser, dateVars, eduVars, rawSkills, normSkills, pipeVars, blockVars, nlpVars>>

\* normalize_skills called on the list the first call returned
NormalizeSkillsAgain ==
  /\ npc = "skills_done"
  /\ rawSkills' = normSkills
  /\ normSkills' = normalize_skills(simS, normSkills)
  /\ npc' = "skills_twice"
  /\ UNCHANGED <<dateparser, dateVars, eduVars, rawTitle, normTitle, pipeVars, blockVars, nlpVars>>

NextNorm ==
  NormalizeTitle \/ NormalizeSkills \/ NormalizeTitleAgain \/ NormalizeSkillsAgain

SpecNorm == InitNorm /\ [][NextNorm]_vars

\* C10: the canonical entry chosen by the oracle replaces the raw string
\* exactly when its score reaches the threshold (80 for titles, 85 for
\* skills, the boundary included); otherwise the raw string is returned
\* unchanged, and an empty raw title is returned unchanged.
C10_ThresholdDecides ==
  /\ npc = "title_done" =>
       IF rawTitle = <<>> THEN normTitle = <<>>
       ELSE IF simT[rawTitle].ok /\ simT[rawTitle].score >= 80
       THEN normTitle = simT[rawTitle].match
       ELSE normTitle = rawTitle
  /\ (npc = "skills_done" /\ Len(rawSkills) = 1 /\ rawSkills[1] # <<>>) =>
       IF simS[rawSkills[1]].ok /\ simS[rawSkills[1]].score >= 85
       THEN normSkills = <<simS[rawSkills[1]].match>>
       ELSE normSkills = <<rawSkills[1]>>
  /\ npc = "skills_done" =>
       \A i \in 1..Len(normSkills) :
         \E j \in 1..Len(rawSkills) :
           /\ rawSkills[j] # <<>>
           /\ IF simS[rawSkills[j]].ok /\ simS[rawSkills[j]].score >= 85
              THEN normSkills[i] = simS[rawSkills[j]].match
              ELSE normSkills[i] = rawSkills[j]

\* a raw title scored exactly 80 has been replaced by the oracle's match
C10_Witness ==
  /\ npc = "title_done" /\ rawTitle # <<>>
  /\ simT[rawTitle].ok /\ simT[rawTitle].score = 80
  /\ normTitle = simT[rawTitle].match
  /\ normTitle # rawTitle

\* C11: normalization is idempotent: a title of CANONICAL_TITLES is returned
\* unchanged, and a second call of normalize_job_title / normalize_skills on
\* the result of the first returns that result.
C11_Idempotent ==
  /\ (npc = "title_done" /\ rawTitle \in CANONICAL_TITLES) => normTitle = rawTitle
  /\ npc = "title_twice" => normTitle = rawTitle
  /\ npc = "skills_twice" => normSkills = rawSkills

\* a list of two raw skills was normalized to one canonical entry, and the
\* second call returned that one-entry list again
C11_Witness ==
  /\ npc = "skills_twice"
  /\ normSkills = <<<<"Python">>>>
  /\ rawSkills = normSkills
  /\ simS[<<"python">>].score = 85 /\ simS[<<"Pyton">>].score = 85

(***************************************************************************)
(* get_nlp and the adapter calls under concurrent callers (nlp.py 8-51).   *)
(* Every read or write of the global _NLP is a step of its own; Flask      *)
(* serves requests on threads, so the steps of different calls interleave. *)
(***************************************************************************)
NumThreads == 2
MaxCalls == 2

Threads == 1..NumThreads

NewHandle(hasNer) ==
  [ner |-> hasNer, sentencizer |-> FALSE, ruler |-> FALSE, patterns |-> 0]

NoLocals == [before_ner |-> FALSE, ruler |-> 0, nlp |-> 0]

InitNlp ==
  /\ _NLP = 0
  /\ handles = <<>>
  /\ tpc = [t \in Threads |-> "idle"]
  /\ tlocal = [t \in Threads |-> NoLocals]
  /\ calls = [t \in Threads |-> 0]
  /\ loads = 0
  /\ installs = 0
  /\ IdleDate
  /\ IdlePipe
  /\ IdleSim
  /\ IdleBlock
  /\ IdleSpan
  /\ IdleEdu
  /\ IdleNorm

NlpFrame == UNCHANGED <<dateparser, dateVars, eduVars, pipeVars, blockVars, normVars>>

\* guess_company_and_title / collect_skills entered: nlp = get_nlp()
CallAdapter(t) ==
  /\ tpc[t] \in {"idle", "returned", "raised"}
  /\ calls[t] < MaxCalls
  /\ calls' = [calls EXCEPT ![t] = @ + 1]
  /\ tpc' = [tpc EXCEPT ![t] = "check"]
  /\ tlocal' = [tlocal EXCEPT ![t] = NoLocals]
  /\ UNCHANGED <<_NLP, handles, loads, installs>>
  /\ NlpFrame

\* if _NLP is None:
CheckNone(t) ==
  /\ tpc[t] = "check"
  /\ tpc' = [tpc EXCEPT ![t] = IF _NLP = 0 THEN "load" ELSE "ret"]
  /\ UNCHANGED <<_NLP, handles, tlocal, calls, loads, installs>>
  /\ NlpFrame

\* _NLP = spacy.load("en_core_web_sm"), or _NLP = English() when that raises
LoadModel(t) ==
  /\ tpc[t] = "load"
  /\ \E loaded \in BOOLEAN :
       /\ handles' = Append(handles, NewHandle(loaded))
       /\ tpc' = [tpc EXCEPT ![t] = IF loaded THEN "ner_check" ELSE "sent_check"]
  /\ _NLP' = Len(handles) + 1
  /\ loads' = loads + 1
  /\ UNCHANGED <<tlocal, calls, installs>>
  /\ NlpFrame

\* if "sentencizer" not in _NLP.pipe_names:
SentCheck(t) ==
  /\ tpc[t] = "sent_check"
  /\ tpc' = [tpc EXCEPT ![t] = IF handles[_NLP].sentencizer THEN "ner_check"
                               ELSE "sent_add"]
  /\ UNCHANGED <<_NLP, handles, tlocal, calls, loads, installs>>
  /\ NlpFrame

\* _NLP.add_pipe("sentencizer"); add_pipe raises when the name is in the pipeline
SentAdd(t) ==
  /\ tpc[t] = "sent_add"
  /\ IF handles[_NLP].sentencizer
     THEN /\ tpc' = [tpc EXCEPT ![t] = "raised"]
          /\ UNCHANGED handles
     ELSE /\ handles' = [handles EXCEPT ![_NLP].sentencizer = TRUE]
          /\ tpc' = [tpc EXCEPT ![t] = "ner_check"]
  /\ UNCHANGED <<_NLP, tlocal, calls, loads, installs>>
  /\ NlpFrame

\* if "ner" in _NLP.pipe_names:
NerCheck(t) ==
  /\ tpc[t] = "ner_check"
  /\ tlocal' = [tlocal EXCEPT ![t].before_ner = handles[_NLP].ner]
  /\ tpc' = [tpc EXCEPT ![t] = "add_ruler"]
  /\ UNCHANGED <<_NLP, handles, calls, loads, installs>>
  /\ NlpFrame

\* ruler = _NLP.add_pipe("entity_ruler"[, before="ner"]): raises when the
\* pipeline cannot be configured, when it already has an entity ruler, or
\* when before="ner" names a component the pipeline does not have
AddRuler(t) ==
  /\ tpc[t] = "add_ruler"
  /\ \E configurable \in BOOLEAN :
       IF \/ ~configurable
          \/ handles[_NLP].ruler
          \/ (tlocal[t].before_ner /\ ~handles[_NLP].ner)
       THEN /\ tpc' = [tpc EXCEPT ![t] = "raised"]
            /\ UNCHANGED <<handles, tlocal, installs>>
       ELSE /\ handles' = [handles EXCEPT ![_NLP].ruler = TRUE]
            /\ tlocal' = [tlocal EXCEPT ![t].ruler = _NLP]
            /\ installs' = installs + 1
            /\ tpc' = [tpc EXCEPT ![t] = "add_patterns"]
  /\ UNCHANGED <<_NLP, calls, loads>>
  /\ NlpFrame

\* ruler.add_patterns(TITLE_PATTERNS + SKILL_PATTERNS)
AddPatterns(t) ==
  /\ tpc[t] = "add_patterns"
  /\ handles' = [handles EXCEPT ![tlocal[t].ruler].patterns = @ + 1]
  /\ tpc' = [tpc EXCEPT ![t] = "ret"]
  /\ UNCHANGED <<_NLP, tlocal, calls, loads, installs>>
  /\ NlpFrame

\* return _NLP
ReturnNlp(t) ==
  /\ tpc[t] = "ret"
  /\ tlocal' = [tlocal EXCEPT ![t].nlp = _NLP]
  /\ tpc' = [tpc EXCEPT ![t] = "call_nlp"]
  /\ UNCHANGED <<_NLP, handles, calls, loads, installs>>
  /\ NlpFrame

\* doc = nlp(text or ""), and the entity lists built from it
CallNlp(t) ==
  /\ tpc[t] = "call_nlp"
  /\ \E works \in BOOLEAN :
       tpc' = [tpc EXCEPT ![t] = IF works THEN "returned" ELSE "raised"]
  /\ UNCHANGED <<_NLP, handles, tlocal, calls, loads, installs>>
  /\ NlpFrame

NextNlp ==
  \E t \in Threads :
    \/ CallAdapter(t)
    \/ CheckNone(t)
    \/ LoadModel(t)
    \/ SentCheck(t)
    \/ SentAdd(t)
    \/ NerCheck(t)
    \/ AddRuler(t)
    \/ AddPatterns(t)
    \/ ReturnNlp(t)
    \/ CallNlp(t)

SpecNlp == InitNlp /\ [][NextNlp]_vars

\* C1: however many callers race through get_nlp(), the model is loaded at
\* most once, the entity ruler is installed at most once, and every caller
\* receives the same handle.
C1_InitializedOnce ==
  /\ loads <= 1
  /\ installs <= 1
  /\ \A t1, t2 \in Threads :
       (tlocal[t1].nlp # 0 /\ tlocal[t2].nlp # 0) => tlocal[t1].nlp = tlocal[t2].nlp

\* C2: a failing oracle (model load, pipeline configuration, or the call
\* nlp(text)) never makes guess_company_and_title or collect_skills raise.
C2_OracleFailureDegrades == \A t \in Threads : tpc[t] # "raised"


(***************************************************************************)
(* Properties of the pipeline                                              *)
(***************************************************************************)
\* C3: for every input text extract_structured_profile terminates without
\* raising and returns a record with the fields summary, experience,
\* education and skills.
C3_PipelineTotal ==
  /\ phase # "raised"
  /\ phase = "done" =>
       DOMAIN sections = {"summary", "experience", "education", "skills"}

\* C7: the end-to-end scenario yields summary "ML Engineer.", one experience
\* entry (Machine Learning Engineer, OpenAI, 2021-01, no end date), one
\* education entry (MIT, M.Sc., CS, 2016, 2018) and skills [Python, SQL].
C7_Scenario ==
  (phase = "done" /\ text = ScenarioText) =>
    /\ sections.summary = <<"ML", " ", "Engineer", ".">>
    /\ Len(sections.experience) = 1
    /\ sections.experience[1].title = <<"Machine", " ", "Learning", " ", "Engineer">>
    /\ sections.experience[1].company = <<"OpenAI">>
    /\ sections.experience[1].start_date = <<"2021", "-", "01">>
    /\ sections.experience[1].end_date = <<>>
    /\ sections.education =
         <<[school |-> <<"MIT">>, degree |-> <<"M", ".", "Sc", ".">>,
            field |-> <<"CS">>, start_year |-> <<"2016">>, end_year |-> <<"2018">>]>>
    /\ sections.skills = <<<<"Python">>, <<"SQL">>>>

\* the aggregated skills are casing variants of one skill
OneSkillVariants(list) ==
  /\ list # <<>>
  /\ Strip(list[1]) # <<>>
  /\ \A i \in 1..Len(list) : Lower(Strip(list[i])) = Lower(Strip(list[1]))

\* C8 as stated: for casing variants of one skill the Profile's skills hold
\* exactly one entry, spelled exactly as the first variant seen.
C8_FirstSeenCasing ==
  (phase = "done" /\ OneSkillVariants(merged)) =>
    sections.skills = <<Strip(merged[1])>>

\* the entries of list whose lower-cased key occurs at no earlier index
FirstOccurrences(list) ==
  LET keep == {i \in 1..Len(list) :
                 /\ Strip(list[i]) # <<>>
                 /\ \A j \in 1..(i - 1) : Lower(Strip(list[j])) # Lower(Strip(list[i]))}
      RECURSIVE Pick(_)
      Pick(i) == IF i > Len(list) THEN <<>>
                 ELSE IF i \in keep THEN <<Strip(list[i])>> \o Pick(i + 1)
                 ELSE Pick(i + 1)
  IN Pick(1)

\* the skill mentions the oracle found in the summary and the descriptions
NerMentions == Mentions(ExtraSkillText(sections), ner.skills)

Replaced(raw) == simS[raw].ok /\ simS[raw].score >= SkillMinScore

\* C8 as amended: the NER mentions follow the section tokens; for casing
\* variants of one skill the Profile's skills hold exactly one entry, the
\* first variant seen or, when the similarity oracle scores that variant at
\* least 85, the canonical form it matched; and when no aggregated skill
\* reaches the threshold the skills are the first occurrences, in order.
C8_FirstSeenOrCanonical ==
  phase = "done" =>
    /\ SubSeq(merged, Len(merged) - Len(NerMentions) + 1, Len(merged)) = NerMentions
    /\ OneSkillVariants(merged) =>
         sections.skills =
           <<IF Replaced(Strip(merged[1])) THEN simS[Strip(merged[1])].match
             ELSE Strip(merged[1])>>
    /\ (\A r \in DOMAIN simS : ~Replaced(r)) =>
         sections.skills = FirstOccurrences(merged)

\* several casing variants of one skill, from a Skills section and from the
\* NER mentions, were aggregated into the single first-seen spelling
C8_Witness ==
  /\ phase = "done"
  /\ OneSkillVariants(merged)
  /\ Len(merged) >= 3
  /\ NerMentions # <<>>
  /\ \E i \in 1..Len(merged) : merged[i] # merged[1]
  /\ ~Replaced(Strip(merged[1]))
  /\ sections.skills = <<Strip(merged[1])>>

\* C9: the skills of every returned Profile are case-insensitively unique
\* and contain no empty string.
C9_SkillsUnique ==
  phase = "done" =>
    /\ \A i, j \in 1..Len(sections.skills) :
         i # j => Lower(sections.skills[i]) # Lower(sections.skills[j])
    /\ \A i \in 1..Len(sections.skills) : sections.skills[i] # <<>>

\* two distinct raw skills of several Skills sections were normalized to the
\* same canonical form, and a Profile was returned
C9_Witness ==
  /\ phase = "done"
  /\ \E r1, r2 \in DOMAIN simS :
       /\ Lower(r1) # Lower(r2)
       /\ Replaced(r1) /\ Replaced(r2)
       /\ simS[r1].match = simS[r2].match
  /\ Len(SelectSeq(text, LAMBDA l : LowerLex(l) = "skills")) >= 2
  /\ sections.skills # <<>>

(***************************************************************************)
(* Direct calls of parse_date_range                                        *)
(***************************************************************************)
Sides ==
  {<<"2018">>, <<"Jan", " ", "2021">>, <<"Jun", " ", "2021">>, <<"Sept", " ", "2020">>,
   <<"Present">>, <<"Jan", " ", "2021", " ", "now">>, <<"Acme", " ", "2020">>,
   <<"Acme">>}

SpanSeparators == {<<" ", "-", " ">>, <<EnDash>>, <<"-">>}

\* spans of the shape YYYY-MM - YYYY-MM
IsoSpans ==
  {<<y1, "-", m1, " ", "-", " ", y2, "-", m2>> :
     y1 \in {"2021"}, m1 \in {"01", "03"}, y2 \in {"2022"}, m2 \in {"01", "03"}}

Spans ==
  {<<>>} \cup Sides \cup {l \o sep \o r : l \in Sides, sep \in SpanSeparators, r \in Sides}
    \cup IsoSpans

InitDate ==
  /\ span \in Spans
  /\ dateparser \in DateOracles
  /\ dpc = "call"
  /\ dateRes = <<<<>>, <<>>>>
  /\ IdlePipe
  /\ IdleSim
  /\ IdleBlock
  /\ IdleNorm
  /\ IdleNlp
  /\ IdleEdu

\* parse_date_range(span)
ParseDateRange ==
  /\ dpc = "call"
  /\ dateRes' = parse_date_range(span)
  /\ dpc' = "returned"
  /\ UNCHANGED <<dateparser, span, eduVars, pipeVars, blockVars, normVars, nlpVars>>

NextDate == ParseDateRange

SpecDate == InitDate /\ [][NextDate]_vars

\* the two sides of a span: the text before and after its first hyphen or en dash
SepPositions(s) == {i \in 1..Len(s) : s[i] \in {"-", EnDash}}
FirstSep(s) == CHOOSE i \in SepPositions(s) : \A j \in SepPositions(s) : i <= j
LeftSide(s) ==
  IF SepPositions(s) = {} THEN Strip(s) ELSE Strip(SubSeq(s, 1, FirstSep(s) - 1))
RightSide(s) ==
  IF SepPositions(s) = {} THEN <<>> ELSE Strip(SubSeq(s, FirstSep(s) + 1, Len(s)))

\* the 'Month YYYY' token pairs and the 4-digit years of a side
MonthYearPairs(x) ==
  {i \in 1..(Len(x) - 2) : x[i] \in WordLex3to9 /\ x[i + 1] = " " /\ x[i + 2] \in YearLex}
YearPositions(x) == {i \in 1..Len(x) : x[i] \in YearLex}
Least(S) == CHOOSE i \in S : \A j \in S : i <= j

\* the month the month table gives for a word (01 when it is no month name)
TableMonth(word) ==
  IF Prefix3(LowerLex(word)) \in DOMAIN MONTHS THEN MONTHS[Prefix3(LowerLex(word))] ELSE 1

\* the chain of C13 for one side: present/now/current, the oracle, a year
\* that stands without a month word, a 'Month YYYY' pair, nothing
ChainAsStated(x) ==
  IF x = <<>> THEN <<>>
  ELSE IF \E i \in 1..Len(x) : LowerLex(x[i]) \in PresentLex THEN <<>>
  ELSE IF dateparser_parse(x).ok
  THEN FmtYM(dateparser_parse(x).year, dateparser_parse(x).month)
  ELSE IF MonthYearPairs(x) # {}
  THEN FmtYM(IntOf[x[Least(MonthYearPairs(x)) + 2]], TableMonth(x[Least(MonthYearPairs(x))]))
  ELSE IF YearPositions(x) # {}
  THEN <<x[Least(YearPositions(x))], "-", "01">>
  ELSE <<>>

\* C13: parse_date_range resolves each side of the span, split at the first
\* hyphen or en dash, by the chain: present/now/current gives empty; else the
\* oracle's year and month; else a bare 4-digit year gives YYYY-01; else a
\* 'Month YYYY' pair gives YYYY-MM by the month table; else empty; an absent
\* right side gives an empty end.
C13_ChainAsStated ==
  dpc = "returned" =>
    dateRes = <<ChainAsStated(LeftSide(span)), ChainAsStated(RightSide(span))>>

\* C14: for a span of the shape YYYY-MM - YYYY-MM parse_date_range returns
\* the two YYYY-MM values of the input, whatever the date-parsing oracle
\* answers (so by the fallback steps as well as by direct parsing).
C14_IsoIdempotent ==
  (dpc = "returned" /\ span \in IsoSpans) =>
    dateRes = <<SubSeq(span, 1, 3), SubSeq(span, 7, 9)>>

\* the experience items as the Block Parser produced them, before enrichment
Parsed == split_sections(text).sections.experience

\* C12: enrichment calls guess_company_and_title only for an item whose title
\* or company is empty (so a failing guess cannot fail the enrichment of items
\* that have both), takes dates from extract_dates only when both dates are
\* empty, leaves every non-empty title, company, start_date and end_date as
\* the Block Parser produced it, and never changes location or description.
C12_EnrichmentFrame ==
  /\ phase = "enriched" =>
       /\ Len(sections.experience) = Len(Parsed)
       /\ \A i \in 1..Len(Parsed) :
            \E pre \in {Parsed[i]}, post \in {sections.experience[i]} :
              /\ pre.title # <<>> => post.title = pre.title
              /\ pre.company # <<>> => post.company = pre.company
              /\ (pre.start_date # <<>> \/ pre.end_date # <<>>) =>
                   /\ post.start_date = pre.start_date
                   /\ post.end_date = pre.end_date
              /\ post.location = pre.location
              /\ post.description = pre.description
  /\ (phase = "raised" /\ ner.guessRaises /\ split_sections(text).ok) =>
       \E i \in 1..Len(Parsed) : Parsed[i].title = <<>> \/ Parsed[i].company = <<>>

\* an item with a title but no company was enriched: the company was guessed,
\* the title kept, and another item's parsed dates were kept
C12_Witness ==
  /\ phase = "enriched"
  /\ \E i \in 1..Len(Parsed) :
       /\ Parsed[i].title # <<>> /\ Parsed[i].company = <<>>
       /\ sections.experience[i].company # <<>>
       /\ sections.experience[i].title = Parsed[i].title
  /\ \E i \in 1..Len(Parsed) :
       /\ Parsed[i].start_date # <<>>
       /\ sections.experience[i].start_date = Parsed[i].start_date

(***************************************************************************)
(* C15: a text without any section keyword                                 *)
(***************************************************************************)
NoKeyword(t) == \A i \in 1..Len(t) : ~IsKeyword(t[i])

\* the skill mentions the oracle reports in the trimmed text
SummaryMentions == Mentions(Strip(text), ner.skills)

\* C15 as stated: when the text holds none of the keywords Experience,
\* Education, Skills, the returned profile has summary = the trimmed text and
\* empty experience, education and skills lists.
C15_OnlySummary ==
  (phase = "done" /\ NoKeyword(text)) =>
     /\ sections.summary = Strip(text)
     /\ sections.experience = <<>>
     /\ sections.education = <<>>
     /\ sections.skills = <<>>

\* C15 amended: when the text holds none of the keywords, the segmenter's output
\* has only summary populated (the trimmed text) and experience and education
\* stay empty to the end; the skills of the returned profile are the
\* normalized, deduplicated skill mentions the oracle finds in the summary, so
\* they are empty exactly when the oracle finds none (as for the empty text).
C15_SummaryAndMentions ==
  (phase \in {"split", "enriched", "done"} /\ NoKeyword(text)) =>
     /\ sections.summary = Strip(text)
     /\ sections.experience = <<>>
     /\ sections.education = <<>>
     /\ phase # "done" => sections.skills = <<>>
     /\ phase = "done" =>
          /\ (sections.skills = <<>>) <=> (SummaryMentions = <<>>)
          /\ merged = SummaryMentions
          /\ sections.skills = normalize_skills(simS, Deduplicate(SummaryMentions))
          /\ text = <<>> => sections = EmptySections

\* a keyword-free text whose summary holds two mentions of one skill
C15_Witness ==
  /\ phase = "done"
  /\ NoKeyword(text)
  /\ sections.summary = <<"Python", " ", "python">>
  /\ merged = <<<<"Python">>, <<"python">>>>
  /\ sections.skills = <<<<"Python">>>>

(***************************************************************************)
(* Direct calls of split_sections on one education span                    *)
(***************************************************************************)
MaxEduLines == 3

PresentVariants == {"present", "Present", "PRESENT"}

\* lines written as 'School <dash> Degree[, Field][ (Years)]', by their parts;
\* years is <<>> when the line has no parenthesis
EduEntries ==
  {[indent |-> <<>>, school |-> <<"MIT">>, dash |-> EnDash,
    degree |-> <<"M", ".", "Sc", ".">>, field |-> <<"CS">>,
    years |-> <<"2016", EnDash, "2018">>],
   [indent |-> <<" ", " ">>, school |-> <<"ETH">>, dash |-> "-",
    degree |-> <<"BSc">>, field |-> <<>>,
    years |-> <<"2018", " ", "-", " ", "Present">>],
   [indent |-> <<>>, school |-> <<"ETH">>, dash |-> "-",
    degree |-> <<"PhD">>, field |-> <<"AI">>,
    years |-> <<"2020", "-", "PRESENT">>],
   [indent |-> <<>>, school |-> <<"MIT">>, dash |-> EnDash,
    degree |-> <<"BSc">>, field |-> <<>>,
    years |-> <<"2020", " ", EnDash, "present">>],
   [indent |-> <<>>, school |-> <<"MIT">>, dash |-> "-",
    degree |-> <<"BSc">>, field |-> <<"CS">>, years |-> <<>>],
   [indent |-> <<>>, school |-> <<"ETH">>, dash |-> EnDash,
    degree |-> <<"PhD">>, field |-> <<>>, years |-> <<"ongoing">>]}

\* the line as it is written in the text
Render(e) ==
  e.indent \o e.school \o <<" ", e.dash, " ">> \o e.degree
    \o (IF e.field # <<>> THEN <<",", " ">> \o e.field ELSE <<>>)
    \o (IF e.years # <<>> THEN <<" ", "(">> \o e.years \o <<")">> ELSE <<>>)

\* lines that are not of that shape
FreeLines ==
  {<<"Self", " ", "taught">>,
   <<"MIT", "-", "BSc", " ", "(", "2016", EnDash, "2018", ")">>}

BlankLines == {<<>>, <<" ">>}

EduLineSet == {Render(e) : e \in EduEntries} \cup FreeLines \cup BlankLines

\* "\n".join(lines)
RECURSIVE JoinNl(_)
JoinNl(list) ==
  IF list = <<>> THEN <<>>
  ELSE IF Len(list) = 1 THEN list[1]
  ELSE list[1] \o <<"\n">> \o JoinNl(Tail(list))

EduText(lines) == <<"Education", "\n">> \o JoinNl(lines)

InitEdu ==
  /\ eduLines \in UNION {[1..n -> EduLineSet] : n \in 0..MaxEduLines}
  /\ epc = "call"
  /\ eduRes = <<>>
  /\ IdleDate
  /\ IdlePipe
  /\ IdleSim
  /\ IdleBlock
  /\ IdleNorm
  /\ IdleNlp
  /\ IdleSpan

\* split_sections(text)["education"] for a text with one education span
SplitEducation ==
  /\ epc = "call"
  /\ eduRes' = split_sections(EduText(eduLines)).sections.education
  /\ epc' = "returned"
  /\ UNCHANGED <<dateparser, dateVars, eduLines, pipeVars, blockVars, normVars, nlpVars>>

NextEdu == SplitEducation

SpecEdu == InitEdu /\ [][NextEdu]_vars

\* the years of an entry as 'start <dash> end', when they have that shape
YearsParts(e) ==
  IF /\ Len(e.years) >= 3
     /\ e.years[1] \in YearLex
     /\ e.years[Len(e.years)] \in YearLex \cup PresentVariants
  THEN [ok |-> TRUE, start |-> e.years[1], end |-> e.years[Len(e.years)]]
  ELSE [ok |-> FALSE]

\* the item the specification asks for an entry
ItemAsStated(e) ==
  [school |-> e.school, degree |-> e.degree, field |-> e.field,
   start_year |-> IF YearsParts(e).ok THEN <<YearsParts(e).start>> ELSE <<>>,
   end_year |-> IF YearsParts(e).ok /\ YearsParts(e).end \notin PresentVariants
                THEN <<YearsParts(e).end>> ELSE <<>>]

\* C16: every non-blank line of an education span yields exactly one item, in
\* line order; a line not of the shape 'School - Degree[, Field][(Years)]'
\* becomes school whole with every other field empty; Years 'start-end' gives
\* start_year = start and end_year = end, or empty when end is 'present' in any
\* case.
C16_EducationLines ==
  epc = "returned" =>
    LET lines == SelectSeq(eduLines, LAMBDA l : Strip(l) # <<>>)
    IN /\ Len(eduRes) = Len(lines)
       /\ \A i \in 1..Len(lines) :
            IF \E e \in EduEntries : Render(e) = lines[i]
            THEN eduRes[i] = ItemAsStated(CHOOSE e \in EduEntries : Render(e) = lines[i])
            ELSE eduRes[i] = [EducationItem EXCEPT !.school = Strip(lines[i])]

\* three lines, one blank: an entry ending in 'Present' and a free line
C16_Witness ==
  /\ epc = "returned"
  /\ Len(eduLines) = 3
  /\ Len(eduRes) = 2
  /\ eduRes[1] = [school |-> <<"ETH">>, degree |-> <<"BSc">>, field |-> <<>>,
                  start_year |-> <<"2018">>, end_year |-> <<>>]
  /\ eduRes[2] = [EducationItem EXCEPT !.school = <<"Self", " ", "taught">>]

(***************************************************************************)
(* C17, C18: the trailing text of a matched header, the positional fallback *)
(***************************************************************************)
\* the non-blank lines after the header line, stripped
MoreOf(b) == Tail(StripAll(NonBlank(splitlines(b))))

\* what follows the dates of a matched header line
RestOf(b) == FirstMatch(<<PatA, PatB, PatC>>, HeaderLine(b)).caps["rest"]

\* header text and further lines, joined by a space
DescriptionOf(headerText, more) ==
  Strip(JoinSp(NonEmpty(<<Strip(headerText)>>
                          \o (IF more # <<>> THEN <<JoinSp(more)>> ELSE <<>>))))

\* C17: on a matched header, when the trailing text ends in a location suffix,
\* location is the suffix and description is the trailing text before the
\* suffix followed by the further lines; without a suffix location is empty and
\* description is the whole trailing text followed by the further lines.
C17_TailSplit ==
  (bpc = "returned" /\ HasHeader(block)
     /\ FirstMatch(<<PatA, PatB, PatC>>, HeaderLine(block)).ok)
  => LET rest == RestOf(block)
         lm == ReSearch(LOCATION_TAIL, rest)
     IN IF lm.ok
        THEN /\ blockRes.location = Strip(lm.caps["loc"])
             /\ blockRes.description =
                  DescriptionOf(SubSeq(rest, 1, lm.start - 1), MoreOf(block))
        ELSE /\ blockRes.location = <<>>
             /\ blockRes.description = DescriptionOf(rest, MoreOf(block))

\* the non-blank lines of a block, as written
LinesOf(b) == SelectSeq(SplitOn(b, {"\n"}, <<>>), LAMBDA l : Strip(l) # <<>>)

\* C18: when no header pattern matches the first non-blank line of a block,
\* an item is returned with title = non-blank line 1, company = non-blank
\* line 2 (empty without one), description = the remaining non-blank lines
\* joined by a space, and empty start_date, end_date and location.
C18_PositionalFallback ==
  (bpc # "call" /\ HasHeader(block)
     /\ ~FirstMatch(<<PatA, PatB, PatC>>, HeaderLine(block)).ok)
  => /\ bpc = "returned"
     /\ blockRes.title = LinesOf(block)[1]
     /\ blockRes.company = (IF Len(LinesOf(block)) >= 2 THEN LinesOf(block)[2] ELSE <<>>)
     /\ blockRes.description = JoinSp(SubSeq(LinesOf(block), 3, Len(LinesOf(block))))
     /\ blockRes.start_date = <<>>
     /\ blockRes.end_date = <<>>
     /\ blockRes.location = <<>>

\* a block of four non-blank lines without a header shape has been parsed
C18_Witness ==
  /\ bpc = "returned"
  /\ block = <<"Dev", "\n", " ", "Acme", " ", "\n", "did", " ", "x", "\n", "Dev">>
  /\ blockRes.title = <<"Dev">>
  /\ blockRes.company = <<" ", "Acme", " ">>
  /\ blockRes.description = <<"did", " ", "x", " ", "Dev">>

(***************************************************************************)
(* C19: the experience entries and the blocks of the text                  *)
(***************************************************************************)
\* the non-blank blocks of one experience span, trimmed
BlocksOfSpan(content) ==
  SelectSeq(StripAll(SplitBlocks(Strip(content), <<>>)), LAMBDA b : b # <<>>)

\* the non-blank blocks of every experience span of the parts, in text order
RECURSIVE BlocksOfParts(_, _)
BlocksOfParts(parts, i) ==
  IF i > Len(parts) THEN <<>>
  ELSE (IF LowerLex(parts[i][1]) = "experience" /\ i + 1 <= Len(parts)
        THEN BlocksOfSpan(parts[i + 1]) ELSE <<>>)
       \o BlocksOfParts(parts, i + 2)

ExperienceBlocks == BlocksOfParts(SplitKeywords(text, <<>>), 2)

\* C19: the experience list holds exactly one entry per non-blank block of
\* every experience span, in the order of the blocks in the text: after the
\* segmenter entry i is the parse of block i, and enrichment and normalization
\* keep the length and leave entry i the entry of block i (its location and
\* description, and its company and dates when the parse gave any).
C19_EntriesFollowBlocks ==
  phase \in {"split", "enriched", "done"} =>
    /\ Len(sections.experience) = Len(ExperienceBlocks)
    /\ \A i \in 1..Len(ExperienceBlocks) :
         LET parsed == parse_experience_block(ExperienceBlocks[i]).item
             entry == sections.experience[i]
         IN /\ phase = "split" => entry = parsed
            /\ entry.location = parsed.location
            /\ entry.description = parsed.description
            /\ parsed.company # <<>> => entry.company = parsed.company
            /\ (parsed.start_date # <<>> \/ parsed.end_date # <<>>) =>
                 /\ entry.start_date = parsed.start_date
                 /\ entry.end_date = parsed.end_date

\* a profile with three entries from two Experience sections
C19_Witness ==
  /\ phase = "done"
  /\ Len(SelectSeq(text, LAMBDA l : LowerLex(l) = "experience")) = 2
  /\ Len(sections.experience) = 3
  /\ sections.experience[1].company = <<"OpenAI">>
  /\ sections.experience[2].company = <<"Globex">>
  /\ sections.experience[3].company = <<"Acme">>
  /\ sections.experience[3].location = <<"Berlin">>

(***************************************************************************)
(* C20: the handle get_nlp() returns                                       *)
(***************************************************************************)
\* the entity ruler is in the pipeline and holds the TITLE and SKILL patterns
Configured(h) == handles[h].ruler /\ handles[h].patterns = 1

\* C20: every handle get_nlp() has returned to a caller is fully configured
\* (entity ruler added, patterns installed) at the moment it is returned and
\* from then on, under any interleaving and after an initialization that
\* raised part-way; no handle gets the patterns twice.
C20_ReturnedHandleConfigured ==
  /\ \A t \in Threads : tlocal[t].nlp # 0 => Configured(tlocal[t].nlp)
  /\ \A h \in 1..Len(handles) : handles[h].patterns <= 1

(***************************************************************************)
(* C21: what the month table contributes                                   *)
(***************************************************************************)
\* empty, or a value whose month is 01
EmptyOrJanuary(d) ==
  d = <<>> \/ (Len(d) = 3 /\ d[1] \in YearLex /\ d[2] = "-" /\ d[3] = "01")

\* C21: whenever the date-parsing oracle returns none for a side of the span,
\* the value parse_date_range resolves for that side is empty or ends in -01:
\* every side holding a 'Month YYYY' pair holds a 4-digit year, which the
\* bare-year step takes first, so the month table never gives another month.
C21_TableMonthUnused ==
  dpc = "returned" =>
    /\ ~dateparser_parse(LeftSide(span)).ok => EmptyOrJanuary(dateRes[1])
    /\ ~dateparser_parse(RightSide(span)).ok => EmptyOrJanuary(dateRes[2])
    /\ \A x \in {LeftSide(span), RightSide(span)} :
         MonthYearPairs(x) # {} => YearPositions(x) # {}

\* both sides name a month other than January and the oracle is unavailable
C21_Witness ==
  /\ dpc = "returned"
  /\ ~dateparser.avail
  /\ span = <<"Jun", " ", "2021", " ", "-", " ", "Sept", " ", "2020">>
  /\ dateRes = <<<<"2021", "-", "01">>, <<"2020", "-", "01">>>>

=============================================================================
